---- MODULE Spec2Model ----
(***************************************************************************)
(* Model of deploy_tools/generate_compendium.py: the batch converter that  *)
(* turns the parsed records of a BibTeX file into entries.js and one       *)
(* Markdown page per entry.                                                *)
(*                                                                         *)
(* Representation.  A Python str is a sequence of one-character strings.   *)
(* The literal pieces of the f-string templates ("**Authors**: ", the      *)
(* "\n\n" separator, ...) are kept as single multi-character elements of   *)
(* such a sequence, so a text is the concatenation of its elements.  An    *)
(* Optional value is a record [p |-> present?, v |-> value]; None has a    *)
(* fixed filler value so that it is unique.                                *)
(***************************************************************************)
EXTENDS Integers, Sequences, FiniteSets, TLC

VARIABLES raw, entries, ii, k, written, pc, error

vars == <<raw, entries, ii, k, written, pc, error>>

(***************************************************************************)
(* Bounds of the model                                                     *)
(***************************************************************************)
MaxRecords == 3
MaxTitleLen == 3
MaxAuthorLen == 6
MaxYearLen == 2

(***************************************************************************)
(* Optional values and generic sequence helpers                            *)
(***************************************************************************)
NoneStr == [p |-> FALSE, v |-> <<>>]
NoneInt == [p |-> FALSE, v |-> 0]
Some(x) == [p |-> TRUE, v |-> x]

RECURSIVE Flatten(_)
Flatten(ss) == IF ss = <<>> THEN <<>> ELSE Head(ss) \o Flatten(Tail(ss))

\* sep.join(ss) of Python, sep a text
RECURSIVE Join(_, _)
Join(sep, ss) ==
    IF ss = <<>> THEN <<>>
    ELSE IF Len(ss) = 1 THEN ss[1]
    ELSE ss[1] \o sep \o Join(sep, Tail(ss))

\* s.replace(c, t) of Python for a one-character c
RECURSIVE Replace(_, _, _)
Replace(s, c, t) ==
    IF s = <<>> THEN <<>>
    ELSE (IF Head(s) = c THEN t ELSE <<Head(s)>>) \o Replace(Tail(s), c, t)

\* all sequences over S of length at most n
RECURSIVE StringsUpTo(_, _)
StringsUpTo(S, n) ==
    IF n = 0 THEN {<<>>}
    ELSE LET shorter == StringsUpTo(S, n - 1)
         IN  shorter \cup {Append(s, c) : s \in shorter, c \in S}

(***************************************************************************)
(* int(str) and str(int) of Python, base 10, ASCII                         *)
(***************************************************************************)
Digits == {"0", "1", "2", "3", "4", "5", "6", "7", "8", "9"}

DigitVal(c) ==
    CASE c = "0" -> 0 [] c = "1" -> 1 [] c = "2" -> 2 [] c = "3" -> 3
      [] c = "4" -> 4 [] c = "5" -> 5 [] c = "6" -> 6 [] c = "7" -> 7
      [] c = "8" -> 8 [] c = "9" -> 9

DigitChar(d) ==
    CASE d = 0 -> "0" [] d = 1 -> "1" [] d = 2 -> "2" [] d = 3 -> "3"
      [] d = 4 -> "4" [] d = 5 -> "5" [] d = 6 -> "6" [] d = 7 -> "7"
      [] d = 8 -> "8" [] d = 9 -> "9"

Whitespace == {" ", "\t", "\n"}

RECURSIVE LStrip(_)
LStrip(s) == IF s # <<>> /\ Head(s) \in Whitespace THEN LStrip(Tail(s)) ELSE s

RECURSIVE RStrip(_)
RStrip(s) ==
    IF s # <<>> /\ s[Len(s)] \in Whitespace
    THEN RStrip(SubSeq(s, 1, Len(s) - 1)) ELSE s

Strip(s) == RStrip(LStrip(s))

DropSign(s) == IF s # <<>> /\ Head(s) \in {"+", "-"} THEN Tail(s) ELSE s

\* the digit part of an int literal: digits, single underscores between them
IsDigitPart(s) ==
    /\ s # <<>>
    /\ \A i \in 1..Len(s) : s[i] \in Digits \cup {"_"}
    /\ s[1] # "_" /\ s[Len(s)] # "_"
    /\ \A i \in 1..(Len(s) - 1) : ~(s[i] = "_" /\ s[i + 1] = "_")

\* int(s) does not raise ValueError
PyIsInt(s) == IsDigitPart(DropSign(Strip(s)))

RECURSIVE DigitsVal(_, _)
DigitsVal(s, acc) ==
    IF s = <<>> THEN acc
    ELSE IF Head(s) = "_" THEN DigitsVal(Tail(s), acc)
    ELSE DigitsVal(Tail(s), 10 * acc + DigitVal(Head(s)))

PyInt(s) ==
    LET t == Strip(s)
        m == DigitsVal(DropSign(t), 0)
    IN  IF Head(t) = "-" THEN 0 - m ELSE m

RECURSIVE NatToStr(_)
NatToStr(n) ==
    IF n < 10 THEN <<DigitChar(n)>>
    ELSE Append(NatToStr(n \div 10), DigitChar(n % 10))

\* str(n), as used by f"{n}"
IntToStr(n) == IF n < 0 THEN <<"-">> \o NatToStr(0 - n) ELSE NatToStr(n)

(***************************************************************************)
(* Global lookup tables                                                    *)
(***************************************************************************)
\* calendar.month_name: element 0 is the empty string (position 1 here)
month_name ==
    << <<>>,
       <<"J", "a", "n", "u", "a", "r", "y">>,
       <<"F", "e", "b", "r", "u", "a", "r", "y">>,
       <<"M", "a", "r", "c", "h">>,
       <<"A", "p", "r", "i", "l">>,
       <<"M", "a", "y">>,
       <<"J", "u", "n", "e">>,
       <<"J", "u", "l", "y">>,
       <<"A", "u", "g", "u", "s", "t">>,
       <<"S", "e", "p", "t", "e", "m", "b", "e", "r">>,
       <<"O", "c", "t", "o", "b", "e", "r">>,
       <<"N", "o", "v", "e", "m", "b", "e", "r">>,
       <<"D", "e", "c", "e", "m", "b", "e", "r">> >>

\* ID_MONTH_MAPPING[num], num in 0..12
ID_MONTH_MAPPING(num) == month_name[num + 1]

\* MONTH_ID_MAPPING.get(name): the number of the name, None for an unknown one
MONTH_ID_MAPPING_get(name) ==
    IF \E num \in 0..12 : month_name[num + 1] = name
    THEN Some(CHOOSE num \in 0..12 : month_name[num + 1] = name)
    ELSE NoneInt

(***************************************************************************)
(* BibTeX parsing: one raw record (dict of str) to one entry               *)
(***************************************************************************)
RawFields ==
    {"title", "abstract", "publisher", "journal", "journaltitle",
     "year", "month", "url", "author", "keywords"}

\* variant: a year that is no integer is dropped instead of raising
_extract_date_lenient(entry) ==
    LET y     == entry["year"]
        year  == IF y.p /\ PyIsInt(y.v) THEN Some(PyInt(y.v)) ELSE NoneInt
        month == IF entry["month"].p THEN MONTH_ID_MAPPING_get(entry["month"].v)
                 ELSE NoneInt
    IN  [raises |-> FALSE, year |-> year, month |-> month, day |-> NoneInt]

\* raises: int(year) raises ValueError, and then nothing is returned
_extract_date(entry) ==
    LET y      == entry["year"]
        raises == y.p /\ ~PyIsInt(y.v)
        year   == IF y.p /\ ~raises THEN Some(PyInt(y.v)) ELSE NoneInt
        month  == IF entry["month"].p THEN MONTH_ID_MAPPING_get(entry["month"].v)
                  ELSE NoneInt
    IN  [raises |-> raises, year |-> year, month |-> month, day |-> NoneInt]

\* the only exception the extraction of a record can raise
YearRaises(entry) == _extract_date(entry).raises

_extract_title(entry) ==
    IF entry["title"].p
    THEN Some(Replace(Replace(entry["title"].v, "{", <<>>), "}", <<>>))
    ELSE NoneStr

_extract_publisher(entry) ==
    IF entry["publisher"].p THEN Some(entry["publisher"].v)
    ELSE IF entry["journal"].p THEN Some(entry["journal"].v)
    ELSE IF entry["journaltitle"].p THEN Some(entry["journaltitle"].v)
    ELSE NoneStr

\* tagstr.split(", "): cur is the piece read so far
RECURSIVE SplitCommaSpace(_, _)
SplitCommaSpace(s, cur) ==
    IF s = <<>> THEN <<cur>>
    ELSE IF Len(s) >= 2 /\ s[1] = "," /\ s[2] = " "
    THEN <<cur>> \o SplitCommaSpace(SubSeq(s, 3, Len(s)), <<>>)
    ELSE SplitCommaSpace(Tail(s), Append(cur, Head(s)))

_extract_tags(entry) ==
    IF entry["keywords"].p THEN SplitCommaSpace(entry["keywords"].v, <<>>)
    ELSE <<>>

\* variant: the pattern \{([^\}]*)\}, which also matches empty braces
RECURSIVE FindAllBracedStar(_, _)
FindAllBracedStar(s, i) ==
    IF i > Len(s) THEN <<>>
    ELSE IF s[i] # "{" THEN FindAllBracedStar(s, i + 1)
    ELSE LET closers == {j \in (i + 1)..Len(s) : s[j] = "}"}
         IN  IF closers = {} THEN FindAllBracedStar(s, i + 1)
             ELSE LET j == CHOOSE c \in closers : \A d \in closers : c <= d
                  IN  <<SubSeq(s, i + 1, j - 1)>> \o FindAllBracedStar(s, j + 1)

\* re.compile(r"\{([^\}]+)\}").findall(s), scanning from position i:
\* a match at i is "{", then the longest run of non-"}" characters, which
\* must be non-empty and be followed by "}"; the scan resumes after a match
\* and one character further after a failure.
RECURSIVE FindAllBraced(_, _)
FindAllBraced(s, i) ==
    IF i > Len(s) THEN <<>>
    ELSE IF s[i] # "{" THEN FindAllBraced(s, i + 1)
    ELSE LET closers == {j \in (i + 1)..Len(s) : s[j] = "}"}
         IN  IF closers = {} THEN FindAllBraced(s, i + 1)
             ELSE LET j == CHOOSE c \in closers : \A d \in closers : c <= d
                  IN  IF j = i + 1 THEN FindAllBraced(s, i + 1)
                      ELSE <<SubSeq(s, i + 1, j - 1)>> \o FindAllBraced(s, j + 1)

_extract_authors(entry) ==
    IF entry["author"].p
    THEN LET matches == FindAllBraced(entry["author"].v, 1)
         IN  IF Len(matches) > 0 THEN matches ELSE <<entry["author"].v>>
    ELSE <<>>

\* variant: ids counted from 1
MakeEntryOneBased(n, entry) ==
    LET date == _extract_date(entry)
    IN  [id             |-> n + 1,
         title          |-> _extract_title(entry),
         abstract       |-> entry["abstract"],
         publisher_text |-> _extract_publisher(entry),
         year           |-> date.year,
         month          |-> date.month,
         day            |-> date.day,
         url            |-> entry["url"],
         authors        |-> _extract_authors(entry),
         tags           |-> _extract_tags(entry)]

\* the dict appended to entries by parse_bibtex for the ii-th record
MakeEntry(n, entry) ==
    LET date == _extract_date(entry)
    IN  [id             |-> n,
         title          |-> _extract_title(entry),
         abstract       |-> entry["abstract"],
         publisher_text |-> _extract_publisher(entry),
         year           |-> date.year,
         month          |-> date.month,
         day            |-> date.day,
         url            |-> entry["url"],
         authors        |-> _extract_authors(entry),
         tags           |-> _extract_tags(entry)]

(***************************************************************************)
(* Markdown generation                                                     *)
(***************************************************************************)
\* Python truthiness of an Optional[int] and of an Optional[str]
TruthyInt(x) == x.p /\ x.v # 0
TruthyStr(x) == x.p /\ x.v # <<>>

\* variant: the two replacements in the other order
EscapeTitleQuoteFirst(title) ==
    Replace(Replace(title, "\"", <<"\\", "\"">>), "\\", <<"\\", "\\">>)

\* title.replace("\\", "\\\\").replace('"', '\\"')
EscapeTitle(title) ==
    Replace(Replace(title, "\\", <<"\\", "\\">>), "\"", <<"\\", "\"">>)

\* repr(s) of a str: single quotes unless s has a ' and no "
PyStrRepr(s) ==
    LET hasSingle == \E i \in 1..Len(s) : s[i] = "'"
        hasDouble == \E i \in 1..Len(s) : s[i] = "\""
        q         == IF hasSingle /\ ~hasDouble THEN "\"" ELSE "'"
        esc(c)    == IF c = "\\" THEN <<"\\", "\\">>
                     ELSE IF c = q THEN <<"\\", q>>
                     ELSE IF c = "\n" THEN <<"\\", "n">>
                     ELSE IF c = "\t" THEN <<"\\", "t">>
                     ELSE <<c>>
    IN  <<q>> \o Flatten([i \in 1..Len(s) |-> esc(s[i])]) \o <<q>>

\* str(l) of a list of str, as produced by f"{l}"
PyListRepr(l) ==
    <<"[">> \o Join(<<", ">>, [i \in 1..Len(l) |-> PyStrRepr(l[i])]) \o <<"]">>

AuthorsField(entry) ==
    IF entry.authors # <<>> /\ Len(entry.authors) > 0
    THEN Some(<<"**Authors**: ">> \o Join(<<", ">>, entry.authors))
    ELSE NoneStr

DateField(entry) ==
    IF TruthyInt(entry.year) /\ TruthyInt(entry.month)
    THEN Some(<<"**Published**: ">> \o ID_MONTH_MAPPING(entry.month.v)
              \o <<" ">> \o IntToStr(entry.year.v))
    ELSE IF TruthyInt(entry.year)
    THEN Some(<<"**Published**: ">> \o IntToStr(entry.year.v))
    ELSE NoneStr

\* a falsy url (None or "") is appended to fields as it is
UrlField(entry) ==
    IF TruthyStr(entry.url)
    THEN Some(<<"**URL**: [">> \o entry.url.v \o <<"](">> \o entry.url.v \o <<")">>)
    ELSE entry.url

TagShortcode(t) == <<"{{< tag tagname=\"">> \o t \o <<"\" >}}">>

\* a falsy tag list ([]) is appended to fields as it is, and f"{field}"
\* then turns it into its repr
TagsField(entry) ==
    IF entry.tags # <<>>
    THEN Some(<<"**Tags**: ">>
              \o Join(<<" ">>, [i \in 1..Len(entry.tags) |-> TagShortcode(entry.tags[i])]))
    ELSE Some(PyListRepr(entry.tags))

\* a falsy abstract (None or "") is appended to fields as it is
AbstractField(entry) ==
    IF TruthyStr(entry.abstract)
    THEN Some(<<"**Abstract**: ">> \o entry.abstract.v)
    ELSE entry.abstract

\* the list fields before the filter: the date is appended only if not None
Fields(entry) ==
    <<AuthorsField(entry)>>
    \o (IF DateField(entry).p THEN <<DateField(entry)>> ELSE <<>>)
    \o <<UrlField(entry), TagsField(entry), AbstractField(entry)>>

\* [f"{field}" for field in fields if field is not None]
RECURSIVE NotNone(_)
NotNone(fs) ==
    IF fs = <<>> THEN <<>>
    ELSE (IF Head(fs).p THEN <<Head(fs).v>> ELSE <<>>) \o NotNone(Tail(fs))

FieldStr(entry) == Join(<<"\n\n">>, NotNone(Fields(entry)))

\* the exceptions generate_page_for_entry can raise before it opens the file
TitleRaises(entry) == ~entry.title.p
MonthLookupRaises(entry) ==
    TruthyInt(entry.year) /\ TruthyInt(entry.month) /\ entry.month.v \notin 0..12
PageRaises(entry) == TitleRaises(entry) \/ MonthLookupRaises(entry)

PageText(entry) ==
    <<"+++\ndraft = false\ntitle = \"">> \o EscapeTitle(entry.title.v)
    \o <<"\"\ntags = ">> \o PyListRepr(entry.tags)
    \o <<"\n+++\n">> \o FieldStr(entry) \o <<"\n">>

EntryFile(entry) == <<"content/entries/">> \o IntToStr(entry.id) \o <<".md">>

(***************************************************************************)
(* entries.js: "const entries = " + json.dumps(entries, indent=2)          *)
(***************************************************************************)
ENTRIES_SCRIPT == <<"assets/js/entries.js">>

JsonStr(s) ==
    LET esc(c) == IF c = "\\" THEN <<"\\", "\\">>
                  ELSE IF c = "\"" THEN <<"\\", "\"">>
                  ELSE IF c = "\n" THEN <<"\\", "n">>
                  ELSE IF c = "\t" THEN <<"\\", "t">>
                  ELSE <<c>>
    IN  <<"\"">> \o Flatten([i \in 1..Len(s) |-> esc(s[i])]) \o <<"\"">>

JsonOptStr(x) == IF x.p THEN JsonStr(x.v) ELSE <<"null">>
JsonOptInt(x) == IF x.p THEN IntToStr(x.v) ELSE <<"null">>

\* a list of str at nesting depth 2
JsonStrList(l) ==
    IF l = <<>> THEN <<"[]">>
    ELSE <<"[\n      ">>
         \o Join(<<",\n      ">>, [i \in 1..Len(l) |-> JsonStr(l[i])])
         \o <<"\n    ]">>

JsonEntry(e) ==
    <<"{\n    ">>
    \o Join(<<",\n    ">>,
            << <<"\"id\": ">> \o IntToStr(e.id),
               <<"\"title\": ">> \o JsonOptStr(e.title),
               <<"\"abstract\": ">> \o JsonOptStr(e.abstract),
               <<"\"publisher_text\": ">> \o JsonOptStr(e.publisher_text),
               <<"\"year\": ">> \o JsonOptInt(e.year),
               <<"\"month\": ">> \o JsonOptInt(e.month),
               <<"\"day\": ">> \o JsonOptInt(e.day),
               <<"\"url\": ">> \o JsonOptStr(e.url),
               <<"\"authors\": ">> \o JsonStrList(e.authors),
               <<"\"tags\": ">> \o JsonStrList(e.tags) >>)
    \o <<"\n  }">>

JsonDumps(es) ==
    IF es = <<>> THEN <<"[]">>
    ELSE <<"[\n  ">>
         \o Join(<<",\n  ">>, [i \in 1..Len(es) |-> JsonEntry(es[i])])
         \o <<"\n]">>

EntriesJs(es) == <<"const entries = ">> \o JsonDumps(es)

(***************************************************************************)
(* Inputs: the records the BibTeX parser hands to parse_bibtex             *)
(***************************************************************************)
\* a record from its ten fields, in the order of RawFields
Rec(title, abstract, publisher, journal, journaltitle, year, month, url, author, keywords) ==
    [f \in RawFields |->
        CASE f = "title" -> title
          [] f = "abstract" -> abstract
          [] f = "publisher" -> publisher
          [] f = "journal" -> journal
          [] f = "journaltitle" -> journaltitle
          [] f = "year" -> year
          [] f = "month" -> month
          [] f = "url" -> url
          [] f = "author" -> author
          [] f = "keywords" -> keywords]

Opt(S) == {NoneStr} \cup {Some(x) : x \in S}

sTitle    == <<"{", "A", "}", " ", "b">>
sAbstract == <<"O", "n", " ", "x">>
sPub      == <<"P">>
sJournal  == <<"J">>
sJTitle   == <<"T">>
sYear     == <<"1", "9", "9", "9">>
sMarch    == <<"M", "a", "r", "c", "h">>
sMarchx   == <<"M", "a", "r", "c", "h", "x">>
sUrl      == <<"h", ":", "/", "u">>
sAuthors  == <<"{", "S", ",", " ", "J", ".", "}", " ", "a", "n", "d", " ", "{", "D", "}">>
sAuthor   == <<"S", ",", " ", "J", ".">>
sKeywords == <<"a", ",", " ", "b">>

FullRecord ==
    Rec(Some(sTitle), Some(sAbstract), Some(sPub), Some(sJournal), NoneStr,
        Some(sYear), Some(sMarch), Some(sUrl), Some(sAuthors), Some(sKeywords))

\* records for runs over several records: complete, title only, no title,
\* empty, a year that is no integer, falsy values
RunRecords ==
    { FullRecord,
      Rec(Some(sTitle), NoneStr, NoneStr, NoneStr, NoneStr,
          NoneStr, NoneStr, NoneStr, NoneStr, NoneStr),
      [FullRecord EXCEPT !["title"] = NoneStr],
      [f \in RawFields |-> NoneStr],
      [FullRecord EXCEPT !["year"] = Some(<<"x">>)],
      Rec(Some(<<>>), Some(<<>>), NoneStr, Some(sJournal), NoneStr,
          Some(<<"0">>), Some(<<>>), Some(<<>>), Some(sAuthor), Some(<<>>)) }

\* single records: every combination of absent, empty and ordinary values
EntryRecords ==
    { Rec(t, a, p, j, jt, y, m, u, au, kw) :
        t  \in Opt({<<>>, sTitle}),
        a  \in Opt({<<>>, sAbstract}),
        p  \in Opt({sPub}),
        j  \in Opt({sJournal}),
        jt \in Opt({sJTitle}),
        y  \in Opt({<<"0">>, sYear, <<"x">>}),
        m  \in Opt({<<>>, sMarch, sMarchx}),
        u  \in Opt({<<>>, sUrl}),
        au \in Opt({sAuthor, sAuthors}),
        kw \in Opt({<<>>, sKeywords}) }

YearAlphabet == {"0", "7", "-", " ", "_", "x"}
MonthStrings ==
    {month_name[i] : i \in 1..13} \cup {sMarchx, <<"m", "a", "r", "c", "h">>, <<"3">>}

\* single records over every short year string and every month string
DateRecords ==
    { [FullRecord EXCEPT !["title"] = t, !["year"] = y, !["month"] = m] :
        t \in Opt({sTitle}),
        y \in Opt(StringsUpTo(YearAlphabet, MaxYearLen)),
        m \in Opt(MonthStrings) }

TitleAlphabet == {"\\", "\"", "a", "{"}

\* single records over every short title
TitleRecords ==
    { [FullRecord EXCEPT !["title"] = t, !["year"] = y] :
        t \in Opt(StringsUpTo(TitleAlphabet, MaxTitleLen)),
        y \in Opt({<<"x">>}) }

AuthorAlphabet == {"{", "}", "a", "b"}

\* single records over every short author string
AuthorRecords ==
    { [FullRecord EXCEPT !["author"] = au] :
        au \in Opt(StringsUpTo(AuthorAlphabet, MaxAuthorLen)) }

RECURSIVE SeqsUpTo(_, _)
SeqsUpTo(S, n) ==
    IF n = 0 THEN {<<>>}
    ELSE LET shorter == SeqsUpTo(S, n - 1)
         IN  shorter \cup {Append(s, x) : s \in shorter, x \in S}

Init ==
    /\ \/ raw \in SeqsUpTo(RunRecords, MaxRecords)
       \/ \E r \in EntryRecords : raw = <<r>>
       \/ \E r \in DateRecords : raw = <<r>>
       \/ \E r \in TitleRecords : raw = <<r>>
       \/ \E r \in AuthorRecords : raw = <<r>>
    /\ entries = <<>>
    /\ ii = 0
    /\ k = 0
    /\ written = <<>>
    /\ pc = "parse"
    /\ error = "none"

(***************************************************************************)
(* The run: parse_bibtex, then the main script                             *)
(***************************************************************************)
\* one iteration of the loop of parse_bibtex on a record whose year parses
ParseEntry ==
    /\ pc = "parse"
    /\ ii < Len(raw)
    /\ ~YearRaises(raw[ii + 1])
    /\ entries' = Append(entries, MakeEntry(ii, raw[ii + 1]))
    /\ ii' = ii + 1
    /\ UNCHANGED <<raw, k, written, pc, error>>

\* int(year) raises in _extract_date: the exception ends the process
ParseFail ==
    /\ pc = "parse"
    /\ ii < Len(raw)
    /\ YearRaises(raw[ii + 1])
    /\ pc' = "aborted"
    /\ error' = "ValueError"
    /\ UNCHANGED <<raw, entries, ii, k, written>>

\* parse_bibtex returns; entries.js is written
WriteEntriesScript ==
    /\ pc = "parse"
    /\ ii = Len(raw)
    /\ written' = Append(written, [file |-> ENTRIES_SCRIPT, content |-> EntriesJs(entries)])
    /\ pc' = "pages"
    /\ UNCHANGED <<raw, entries, ii, k, error>>

\* variant: the entry's url is overwritten by its rendered paragraph
GeneratePageMutating ==
    /\ pc = "pages"
    /\ k < Len(entries)
    /\ ~PageRaises(entries[k + 1])
    /\ written' = Append(written, [file    |-> EntryFile(entries[k + 1]),
                                   content |-> PageText(entries[k + 1])])
    /\ entries' = [entries EXCEPT ![k + 1].url = UrlField(entries[k + 1])]
    /\ k' = k + 1
    /\ UNCHANGED <<raw, ii, pc, error>>

\* generate_page_for_entry(entries[k]) returns normally
GeneratePage ==
    /\ pc = "pages"
    /\ k < Len(entries)
    /\ ~PageRaises(entries[k + 1])
    /\ written' = Append(written, [file    |-> EntryFile(entries[k + 1]),
                                   content |-> PageText(entries[k + 1])])
    /\ k' = k + 1
    /\ UNCHANGED <<raw, entries, ii, pc, error>>

\* variant: the file is opened (and so created empty) before the exception
GeneratePageFailAfterOpen ==
    /\ pc = "pages"
    /\ k < Len(entries)
    /\ PageRaises(entries[k + 1])
    /\ written' = Append(written, [file |-> EntryFile(entries[k + 1]), content |-> <<>>])
    /\ pc' = "aborted"
    /\ error' = IF TitleRaises(entries[k + 1]) THEN "AttributeError" ELSE "KeyError"
    /\ UNCHANGED <<raw, entries, ii, k>>

\* generate_page_for_entry(entries[k]) raises before open()
GeneratePageFail ==
    /\ pc = "pages"
    /\ k < Len(entries)
    /\ PageRaises(entries[k + 1])
    /\ pc' = "aborted"
    /\ error' = IF TitleRaises(entries[k + 1]) THEN "AttributeError" ELSE "KeyError"
    /\ UNCHANGED <<raw, entries, ii, k, written>>

\* the loop over entries ends; the final message is printed
Finish ==
    /\ pc = "pages"
    /\ k = Len(entries)
    /\ pc' = "done"
    /\ UNCHANGED <<raw, entries, ii, k, written, error>>

Next ==
    \/ ParseEntry
    \/ ParseFail
    \/ WriteEntriesScript
    \/ GeneratePage
    \/ GeneratePageFail
    \/ Finish

Spec == Init /\ [][Next]_vars

(***************************************************************************)
(* Reading the written files back                                          *)
(***************************************************************************)
\* position of the first element of text equal to tok, 0 if there is none
IndexOf(text, tok) ==
    IF \E i \in 1..Len(text) : text[i] = tok
    THEN CHOOSE i \in 1..Len(text) :
            text[i] = tok /\ \A j \in 1..(i - 1) : text[j] # tok
    ELSE 0

\* what stands between the quotes of the title line of a page
PageTitleOf(text) == SubSeq(text, 2, IndexOf(text, "\"\ntags = ") - 1)

\* what stands after the closing +++ line of a page, without the final newline
PageBodyOf(text) == SubSeq(text, IndexOf(text, "\n+++\n") + 1, Len(text) - 1)

\* text.split("\n\n") for the blank-line separator of the template
RECURSIVE SplitBlankLine(_, _)
SplitBlankLine(text, cur) ==
    IF text = <<>> THEN <<cur>>
    ELSE IF Head(text) = "\n\n"
    THEN <<cur>> \o SplitBlankLine(Tail(text), <<>>)
    ELSE SplitBlankLine(Tail(text), Append(cur, Head(text)))

Paragraphs(body) == IF body = <<>> THEN <<>> ELSE SplitBlankLine(body, <<>>)

RECURSIVE PublishedOnly(_)
PublishedOnly(ps) ==
    IF ps = <<>> THEN <<>>
    ELSE (IF Head(ps) # <<>> /\ Head(Head(ps)) = "**Published**: "
          THEN <<Head(ps)>> ELSE <<>>) \o PublishedOnly(Tail(ps))

\* the pages are the writes after the first one; write j is for entries[j - 1]
PageWrites == 2..Len(written)

\* a state in which the extraction of record i has happened
Extracted == 1..Len(entries)

(***************************************************************************)
(* C1: a missing optional field is never an error: whatever subset of the  *)
(* optional fields (the title among them) a record lacks, the run does not *)
(* abort on it; only a year that is no integer ends a run early.           *)
(***************************************************************************)
C1_MissingFieldNeverError ==
    pc = "aborted" =>
        /\ error = "ValueError"
        /\ \E i \in 1..Len(raw) : raw[i]["year"].p /\ ~PyIsInt(raw[i]["year"].v)

(***************************************************************************)
(* C2: the body of every written page is exactly the paragraphs whose      *)
(* source data is present (Authors, Published, URL, Tags, Abstract, in     *)
(* this order), joined by a blank line; an empty author list, tag list,    *)
(* url or abstract gives no paragraph at all.  The Published paragraph is  *)
(* taken as rendered here; its rule is the subject of C7.                  *)
(***************************************************************************)
PresentParagraphs(e) ==
    (IF e.authors # <<>>
     THEN << <<"**Authors**: ">> \o Join(<<", ">>, e.authors) >> ELSE <<>>)
    \o (IF DateField(e).p THEN <<DateField(e).v>> ELSE <<>>)
    \o (IF e.url.p /\ e.url.v # <<>>
        THEN << <<"**URL**: [">> \o e.url.v \o <<"](">> \o e.url.v \o <<")">> >>
        ELSE <<>>)
    \o (IF e.tags # <<>>
        THEN << <<"**Tags**: ">>
                \o Join(<<" ">>, [i \in 1..Len(e.tags) |->
                        <<"{{< tag tagname=\"">> \o e.tags[i] \o <<"\" >}}">>]) >>
        ELSE <<>>)
    \o (IF e.abstract.p /\ e.abstract.v # <<>>
        THEN << <<"**Abstract**: ">> \o e.abstract.v >> ELSE <<>>)

C2_BodyIsPresentParagraphs ==
    \A j \in PageWrites :
        PageBodyOf(written[j].content)
            = Join(<<"\n\n">>, PresentParagraphs(entries[j - 1]))

(***************************************************************************)
(* C3: the month of every extracted entry is absent or in 1..12: a full    *)
(* English month name gives its number, every other month string (the      *)
(* empty one included) and an absent month give absent.                    *)
(***************************************************************************)
C3_MonthAbsentOrInRange ==
    \A i \in Extracted :
        LET m == raw[i]["month"]
        IN  /\ entries[i].month.p => entries[i].month.v \in 1..12
            /\ IF m.p /\ \E n \in 1..12 : month_name[n + 1] = m.v
               THEN \E n \in 1..12 :
                        month_name[n + 1] = m.v /\ entries[i].month = Some(n)
               ELSE ~entries[i].month.p

(***************************************************************************)
(* C4: a record whose year is present and no integer string aborts the run *)
(* at that record, before anything is written: no entry is made for it or  *)
(* for a later record, the run never reaches the writes, and an abort of   *)
(* this kind leaves no file.  A record without a year gets an absent year. *)
(***************************************************************************)
BadYear(r) == r["year"].p /\ ~PyIsInt(r["year"].v)

C4_BadYearAbortsBeforeWrites ==
    /\ \A i \in 1..Len(raw) :
          BadYear(raw[i]) =>
              /\ Len(entries) < i
              /\ written = <<>>
              /\ pc \in {"parse", "aborted"}
              /\ pc = "aborted" => error = "ValueError"
    /\ (pc = "aborted" /\ error = "ValueError") => written = <<>>
    /\ \A i \in Extracted : ~raw[i]["year"].p => ~entries[i].year.p

\* the run has aborted on a bad year that came after a good record
C4_Witness ==
    /\ pc = "aborted" /\ error = "ValueError"
    /\ ii >= 1 /\ BadYear(raw[ii + 1]) /\ ~raw[1]["year"].p
    /\ written = <<>>

(***************************************************************************)
(* C5: a completed run over n records has made n entries with the ids      *)
(* 0..n-1 in source order, has written entries.js once, first, holding the *)
(* n entries in that order, and has written exactly the n files <id>.md,   *)
(* one per entry and no two alike.                                         *)
(***************************************************************************)
IdPositions(text) == {p \in 1..Len(text) : text[p] = "\"id\": "}

\* the i-th object of the array in text carries the id n
HasIdAt(text, i, n) ==
    \E p \in IdPositions(text) :
        /\ Cardinality({q \in IdPositions(text) : q < p}) = i - 1
        /\ SubSeq(text, p + 1, p + Len(IntToStr(n))) = IntToStr(n)
        /\ text[p + Len(IntToStr(n)) + 1] = ",\n    "

C5_CompletedRunOutputs ==
    pc = "done" =>
        LET n == Len(raw)
        IN  /\ Len(entries) = n
            /\ \A i \in 1..n : entries[i].id = i - 1
            /\ Len(written) = n + 1
            /\ written[1].file = ENTRIES_SCRIPT
            /\ \A j \in 2..(n + 1) : written[j].file # ENTRIES_SCRIPT
            /\ written[1].content = EntriesJs(entries)
            /\ Cardinality(IdPositions(written[1].content)) = n
            /\ \A i \in 1..n : HasIdAt(written[1].content, i, i - 1)
            /\ \A i \in 1..n :
                  written[i + 1].file
                      = <<"content/entries/">> \o IntToStr(i - 1) \o <<".md">>
            /\ \A i, j \in 1..(n + 1) : i # j => written[i].file # written[j].file

C5_Witness == pc = "done" /\ Len(raw) >= 2 /\ Len(written) = Len(raw) + 1

(***************************************************************************)
(* C6: the title of the front matter is the entry's title with every       *)
(* backslash doubled and then every double quote preceded by a backslash:  *)
(* it has no unescaped double quote, and un-escaping it gives the entry's  *)
(* title back.                                                             *)
(***************************************************************************)
\* no double quote outside an escape pair
RECURSIVE NoBareQuote(_)
NoBareQuote(s) ==
    IF s = <<>> THEN TRUE
    ELSE IF Head(s) = "\\" THEN Len(s) >= 2 /\ NoBareQuote(SubSeq(s, 3, Len(s)))
    ELSE Head(s) # "\"" /\ NoBareQuote(Tail(s))

\* a backslash and the character after it become that character
RECURSIVE Unescape(_)
Unescape(s) ==
    IF s = <<>> THEN <<>>
    ELSE IF Head(s) = "\\" /\ Len(s) >= 2
    THEN <<s[2]>> \o Unescape(SubSeq(s, 3, Len(s)))
    ELSE <<Head(s)>> \o Unescape(Tail(s))

C6_TitleEscapeRoundTrip ==
    \A j \in PageWrites :
        LET t == PageTitleOf(written[j].content)
        IN  /\ NoBareQuote(t)
            /\ Unescape(t) = entries[j - 1].title.v

\* a page is written for a title holding a backslash and a double quote
C6_Witness ==
    \E j \in PageWrites :
        LET t == entries[j - 1].title.v
        IN  /\ \E i \in 1..Len(t) : t[i] = "\\"
            /\ \E i \in 1..Len(t) : t[i] = "\""

(***************************************************************************)
(* C7: the Published paragraph of every written page follows the presence  *)
(* of year and month: "<month name> <year>" with both present, "<year>"    *)
(* with only the year present (the year 0 included), none with neither;    *)
(* and the lookup of the month name never fails.                           *)
(***************************************************************************)
C7_PublishedFollowsPresence ==
    /\ error # "KeyError"
    /\ \A j \in PageWrites :
          LET e  == entries[j - 1]
              ps == PublishedOnly(Paragraphs(PageBodyOf(written[j].content)))
          IN  IF e.year.p /\ e.month.p
              THEN ps = << <<"**Published**: ">> \o month_name[e.month.v + 1]
                           \o <<" ">> \o IntToStr(e.year.v) >>
              ELSE IF e.year.p
              THEN ps = << <<"**Published**: ">> \o IntToStr(e.year.v) >>
              ELSE ~e.month.p => ps = <<>>

(***************************************************************************)
(* C8: the author list of every extracted entry: for an author string      *)
(* without nested braces, the brace-enclosed non-empty substrings, without *)
(* their braces and in order of occurrence, if there are any, and else the *)
(* whole author string as the only element; empty for an absent author.    *)
(***************************************************************************)
NoNesting(s) ==
    \A i, j \in 1..Len(s) :
        (i < j /\ s[i] = "{" /\ s[j] = "{") => \E m \in (i + 1)..(j - 1) : s[m] = "}"

BracePairs(s) ==
    {p \in (1..Len(s)) \X (1..Len(s)) :
        /\ p[1] + 1 < p[2]
        /\ s[p[1]] = "{" /\ s[p[2]] = "}"
        /\ \A m \in (p[1] + 1)..(p[2] - 1) : s[m] \notin {"{", "}"}}

RECURSIVE EnclosedInOrder(_, _)
EnclosedInOrder(s, P) ==
    IF P = {} THEN <<>>
    ELSE LET p == CHOOSE x \in P : \A y \in P : x[1] <= y[1]
         IN  <<SubSeq(s, p[1] + 1, p[2] - 1)>> \o EnclosedInOrder(s, P \ {p})

C8_AuthorsList ==
    \A i \in Extracted :
        LET a == raw[i]["author"]
        IN  IF ~a.p THEN entries[i].authors = <<>>
            ELSE NoNesting(a.v) =>
                    IF BracePairs(a.v) # {}
                    THEN entries[i].authors = EnclosedInOrder(a.v, BracePairs(a.v))
                    ELSE entries[i].authors = <<a.v>>

\* an entry is made from an author string with two groups and empty braces
C8_Witness ==
    \E i \in Extracted :
        LET a == raw[i]["author"]
        IN  /\ a.p /\ NoNesting(a.v)
            /\ Cardinality(BracePairs(a.v)) = 2
            /\ Len(entries[i].authors) = 2
            /\ entries[i].authors[1] # entries[i].authors[2]

(***************************************************************************)
(* C9: entries.js is the first write and the pages follow in ascending id  *)
(* order, each with its whole text; when the rendering of the entry with   *)
(* id k fails, entries.js and the pages 0..k-1 are there in full and no    *)
(* page with an id of k or more has been written.                          *)
(***************************************************************************)
C9_WriteOrderAndPartialOutput ==
    /\ written # <<>> =>
          /\ written[1].file = ENTRIES_SCRIPT
          /\ written[1].content = EntriesJs(entries)
    /\ \A j \in PageWrites :
          /\ written[j].file = <<"content/entries/">> \o IntToStr(j - 2) \o <<".md">>
          /\ entries[j - 1].id = j - 2
          /\ written[j].content = PageText(entries[j - 1])
          /\ written[j].content[Len(written[j].content)] = "\n"
    /\ (pc = "aborted" /\ error # "ValueError") =>
          /\ Len(written) = k + 1
          /\ \A j \in 1..Len(written) :
                \A id \in k..(Len(entries) - 1) :
                    written[j].file # <<"content/entries/">> \o IntToStr(id) \o <<".md">>

\* the rendering has failed after a first page, with a further entry behind
C9_Witness ==
    /\ pc = "aborted" /\ error = "AttributeError"
    /\ k >= 1 /\ Len(entries) >= k + 2
    /\ Len(written) = k + 1

(***************************************************************************)
(* C10: an entry does not change after its creation: no step changes an    *)
(* entry already in the list (any field, the id included) or the order of  *)
(* the list, the writes leave the list as it is, and the day of every      *)
(* entry is absent.                                                        *)
(***************************************************************************)
C10_EntriesImmutable ==
    [][ /\ Len(entries') >= Len(entries)
        /\ \A i \in 1..Len(entries) : entries'[i] = entries[i]
        /\ pc # "parse" => entries' = entries
        /\ written' # written => entries' = entries
        /\ \A i \in 1..Len(entries') : ~entries'[i].day.p /\ entries'[i].id = i - 1
      ]_vars

\* a run has written entries.js and two pages
C10_Witness == pc = "done" /\ Len(entries) >= 2 /\ Len(written) = 3

====
